---- MODULE Spec2Model ----
(***************************************************************************)
(* Model of the volatility / regime pipeline:                              *)
(*   src/src/main.py              main                                     *)
(*   src/src/garch_model.py       fit_garch_models                         *)
(*   src/src/regime_switching.py  fit_hmm_regimes                          *)
(*   src/src/diagnostics.py       realized_volatility, evaluate_forecasts  *)
(*                                                                         *)
(* Numbers.  The program computes in IEEE-754 binary64.  The model keeps   *)
(* the arithmetic of that format (round to nearest, ties to even, gradual  *)
(* underflow, overflow to infinity, NaN) at a reduced width: a finite      *)
(* value is an integer count of the smallest subnormal, 2^-FracBits, and   *)
(* is representable when it is m * 2^e with m < 2^MantBits and             *)
(* e <= MaxExp.  Every operation computes the exact result and rounds it.  *)
(***************************************************************************)
EXTENDS Integers, Sequences, FiniteSets, TLC

(* ------------------------------------------------------------------ *)
(* Floating point                                                      *)
(* ------------------------------------------------------------------ *)

\* Width of the significand, in bits (53 in binary64).
MantBits == 5

\* The smallest subnormal is 2^-FracBits (2^-1074 in binary64).
FracBits == 2

\* The largest finite value is (2^MantBits - 1) * 2^MaxExp subnormals.
MaxExp == 6

RECURSIVE Pow2(_)
Pow2(k) == IF k <= 0 THEN 1 ELSE 2 * Pow2(k - 1)

MaxFinite == (Pow2(MantBits) - 1) * Pow2(MaxExp)

\* +infinity; -infinity is -Inf.
Inf == MaxFinite + 1

\* Not-a-number: a missing entry of a pandas Series.
NaN == MaxFinite + 2

IsNaN(x) == x = NaN

IsInf(x) == x = Inf \/ x = -Inf

IsFinite(x) == x >= -MaxFinite /\ x <= MaxFinite

Sign(x) == IF x < 0 THEN -1 ELSE 1

Mag(x) == IF x < 0 THEN -x ELSE x

\* The exponent of the binade of n >= 0: the least e with n < 2^(MantBits+e).
RECURSIVE Binade(_, _)
Binade(n, e) == IF n < Pow2(MantBits + e) THEN e ELSE Binade(n, e + 1)

\* n is a value of the format.
IsFloat(n) ==
    /\ IsFinite(n)
    /\ Mag(n) % Pow2(Binade(Mag(n), 0)) = 0

\* The exact quotient a / b (b > 0) rounded to the nearest value of the
\* format, ties to the even significand; beyond MaxFinite it is infinite.
FRound(a, b) ==
    LET m    == Mag(a)
        fl   == m \div b
        step == Pow2(Binade(fl, 0))
        lo   == (fl \div step) * step
        hi   == lo + step
        r    == IF 2 * m < (lo + hi) * b THEN lo
                ELSE IF 2 * m > (lo + hi) * b THEN hi
                ELSE IF (lo \div step) % 2 = 0 THEN lo ELSE hi
    IN  IF r > MaxFinite THEN Sign(a) * Inf ELSE Sign(a) * r

\* Floor of the square root of n >= 0, one bit at a time.
RECURSIVE ISqrt(_, _, _)
ISqrt(n, bit, acc) ==
    IF bit < 0 THEN acc
    ELSE LET t == acc + Pow2(bit)
         IN  ISqrt(n, bit - 1, IF t * t <= n THEN t ELSE acc)

\* The square root of the integer n >= 0, correctly rounded to the format.
FRoundSqrt(n) ==
    LET fl   == ISqrt(n, (MantBits + MaxExp + FracBits) \div 2 + 1, 0)
        step == Pow2(Binade(fl, 0))
        lo   == (fl \div step) * step
        hi   == lo + step
        r    == IF 4 * n < (lo + hi) * (lo + hi) THEN lo
                ELSE IF 4 * n > (lo + hi) * (lo + hi) THEN hi
                ELSE IF (lo \div step) % 2 = 0 THEN lo ELSE hi
    IN  IF r > MaxFinite THEN Inf ELSE r

FNeg(x) == IF IsNaN(x) THEN NaN ELSE -x

FAbs(x) == IF IsNaN(x) THEN NaN ELSE Mag(x)

FAdd(x, y) ==
    IF IsNaN(x) \/ IsNaN(y) THEN NaN
    ELSE IF IsInf(x) /\ IsInf(y) THEN (IF x = y THEN x ELSE NaN)
    ELSE IF IsInf(x) THEN x
    ELSE IF IsInf(y) THEN y
    ELSE FRound(x + y, 1)

FSub(x, y) == FAdd(x, FNeg(y))

FMul(x, y) ==
    IF IsNaN(x) \/ IsNaN(y) THEN NaN
    ELSE IF IsInf(x) \/ IsInf(y)
         THEN (IF x = 0 \/ y = 0 THEN NaN ELSE Sign(x) * Sign(y) * Inf)
    ELSE FRound(x * y, Pow2(FracBits))

\* x / n for a count n >= 1.
FDivCount(x, n) ==
    IF IsNaN(x) THEN NaN
    ELSE IF IsInf(x) THEN x
    ELSE FRound(x, n)

FSqrt(x) ==
    IF IsNaN(x) \/ x < 0 THEN NaN
    ELSE IF IsInf(x) THEN Inf
    ELSE FRoundSqrt(x * Pow2(FracBits))

\* The value v of the real line (an integer), as a value of the format.
FInt(v) == v * Pow2(FracBits)

(* ------------------------------------------------------------------ *)
(* diagnostics.py                                                      *)
(* ------------------------------------------------------------------ *)

\* Series.dropna(): the entries that are not missing, in order.
DropNa(s) == SelectSeq(s, LAMBDA v : ~IsNaN(v))

\* Sum of a sequence of values, accumulated from the left.
RECURSIVE FSum(_)
FSum(s) == IF Len(s) = 0 THEN 0 ELSE FAdd(FSum(SubSeq(s, 1, Len(s) - 1)), s[Len(s)])

\* The "mean" aggregation of a group: sum / count.
FMean(s) == FDivCount(FSum(s), Len(s))

\* pd.concat(forecasts_df_list, ignore_index=True): the frames' rows, in order.
RECURSIVE Concat(_)
Concat(frames) ==
    IF Len(frames) = 0 THEN << >> ELSE frames[1] \o Concat(Tail(frames))

\* The factor that converts a fraction to percent.
Hundred == FInt(100)

\* Mutant of TailRv: the oldest entry that is not missing (iloc[0]).
TailRvOldest(rv) == LET kept == DropNa(rv) IN FMul(kept[1], Hundred)

\* realized_vol_series.dropna().iloc[-1] * 100.0
TailRv(rv) == LET kept == DropNa(rv) IN FMul(kept[Len(kept)], Hundred)

\* Mutant of AbsErr: the signed error, np.abs left out.
AbsErrSigned(row, ref) == FSub(row.one_day_ahead_vol_forecast_pct, ref)

\* The column abs_err of one row.
AbsErr(row, ref) == FAbs(FSub(row.one_day_ahead_vol_forecast_pct, ref))

\* Mutant of SqErr: the error left unsquared.
SqErrUnsquared(row, ref) == FAbs(FSub(row.one_day_ahead_vol_forecast_pct, ref))

\* The column sq_err of one row.
SqErr(row, ref) ==
    LET d == FSub(row.one_day_ahead_vol_forecast_pct, ref) IN FMul(d, d)

\* groupby("model") sorts its keys: the rank of a model identifier.
ModelRank(m) ==
    CASE m = "EGARCH" -> 1
      [] m = "GARCH11" -> 2
      [] m = "GJRGARCH" -> 3

\* The distinct model identifiers of a table, in key order.
RECURSIVE SortedKeys(_)
SortedKeys(S) ==
    IF S = {} THEN << >>
    ELSE LET k == CHOOSE m \in S : \A o \in S : ModelRank(m) <= ModelRank(o)
         IN  <<k>> \o SortedKeys(S \ {k})

\* The rows of one group, in table order.
GroupRows(df, m) == SelectSeq(df, LAMBDA row : row.model = m)

\* One row of the summary: the group's mean abs_err, and the square root of
\* its mean sq_err.
SummaryRow(df, m, ref) ==
    LET g == GroupRows(df, m)
    IN  [model   |-> m,
         abs_err |-> FMean([i \in 1..Len(g) |-> AbsErr(g[i], ref)]),
         rmse    |-> FSqrt(FMean([i \in 1..Len(g) |-> SqErr(g[i], ref)]))]

\* The table evaluate_forecasts returns.
Summary(frames, rv) ==
    LET df   == Concat(frames)
        ref  == TailRv(rv)
        keys == SortedKeys({df[i].model : i \in 1..Len(df)})
    IN  [k \in 1..Len(keys) |-> SummaryRow(df, keys[k], ref)]

(* ------------------------------------------------------------------ *)
(* Program constants and library results                               *)
(* ------------------------------------------------------------------ *)

\* realized_volatility(returns, window=5)
window == 5

\* acorr_ljungbox(std_resid, lags=[10])
LjungBoxLags == 10

\* GaussianHMM(..., n_iter=200, ...)
n_iter == 200

\* main fits SPY, then BTC.
Assets == <<"SPY", "BTC">>

\* The keys of models_dict, in the order fit_garch_models inserts them.
ModelNames == <<"GARCH11", "EGARCH", "GJRGARCH">>

\* The parameters of fit_garch_models.
GarchSignature == {"returns", "asset_name", "results_dir", "figs_dir"}

\* The parameters of fit_hmm_regimes.
HmmSignature == {"returns", "n_states", "asset_name", "results_dir", "figs_dir"}

One == FInt(1)

\* A result object of arch's fit(): the optimizer's exit status
\* (convergence_flag, 0 when the tolerance was met), the estimated
\* parameters, and the variance res.forecast(horizon=1) reports.
FitResult(flag, alpha, beta, var) ==
    [convergence_flag |-> flag, alpha |-> alpha, beta |-> beta, var_fcast |-> var]

\* The result objects the library can hand back for one variant.  Its
\* stationarity constraint on GARCH(1,1) is alpha + beta <= 1, so an optimum
\* on the boundary is among them; a fit that used up its iteration budget is
\* handed back too, with a non-zero convergence_flag.
FitResults(name) ==
    IF name = "GARCH11"
    THEN {FitResult(0, One \div 4, One \div 2, FInt(4)),
          FitResult(0, One \div 4, (3 * One) \div 4, FInt(9)),
          FitResult(1, One \div 4, One \div 2, FInt(16))}
    ELSE {FitResult(0, One \div 4, One \div 2, FInt(4)),
          FitResult(1, One \div 4, One \div 2, FInt(16))}

\* The daily log returns load_data can deliver for one asset: eleven
\* observations, six (fewer than the Ljung-Box lag count), or four (fewer
\* than the rolling window too).
ReturnSeries ==
    {<<2, -2, 4, 0, 2, -4, 2, 2, -2, 0, 4>>,
     <<2, -4, 0, 2, -2, 4>>,
     <<4, -2, 0, 2>>}

\* returns.dropna() * 100.0
ScaledReturns(returns) ==
    LET kept == DropNa(returns) IN [i \in 1..Len(kept) |-> FMul(kept[i], Hundred)]

\* (returns ** 2).rolling(window).sum() ** 0.5
realized_volatility(returns, w) ==
    [i \in 1..Len(returns) |->
        IF i < w THEN NaN
        ELSE FSqrt(FSum([k \in 1..w |-> FMul(returns[i - w + k], returns[i - w + k])]))]

(* ------------------------------------------------------------------ *)
(* State                                                               *)
(* ------------------------------------------------------------------ *)

VARIABLES
    pc,                   \* main's position
    cur,                  \* index in Assets of the asset being processed
    idx,                  \* fit_garch_models: the variant being fitted / diagnosed
    returns,              \* asset -> its log-return series
    models_dict,          \* fit_garch_models: local, model name -> result object
    forecasts_records,    \* fit_garch_models: local, list of forecast records
    cond_vol_dict,        \* fit_garch_models: local, names with a volatility path
    garch_ret,            \* asset -> what fit_garch_models returned to main
    lb_done,              \* <<asset, model>> with a Ljung-Box statistic computed
    rv,                   \* asset -> realized-volatility series
    hmm_iter,             \* EM iterations done by the running hmm.fit (0 outside it)
    hmm_ret,              \* asset -> what fit_hmm_regimes returned to main
    eval_ret,             \* asset -> summary table of evaluate_forecasts
    error,                \* the exception that ended main, if any
    ev_pc,                \* evaluate_forecasts: "call", "returned", "raised"
    forecasts_df_list,    \* its argument: a list of tables of forecast records
    realized_vol_series,  \* its argument: the rolling realized volatility
    summary,              \* the table it returns
    ev_error              \* the exception it raises, or "none"

ev_vars == <<ev_pc, forecasts_df_list, realized_vol_series, summary, ev_error>>

main_vars ==
    <<pc, cur, idx, returns, models_dict, forecasts_records, cond_vol_dict,
      garch_ret, lb_done, rv, hmm_iter, hmm_ret, eval_ret, error>>

vars ==
    <<pc, cur, idx, returns, models_dict, forecasts_records, cond_vol_dict,
      garch_ret, lb_done, rv, hmm_iter, hmm_ret, eval_ret, error,
      ev_pc, forecasts_df_list, realized_vol_series, summary, ev_error>>

AssetSet == {Assets[i] : i \in 1..Len(Assets)}

NoError == [exc |-> "none", stage |-> "none", asset |-> "none", model |-> "none"]

NoGarch == [returned |-> FALSE, models |-> << >>, fc |-> << >>, cond_vol |-> {}]

NoHmm == [returned |-> FALSE, converged |-> FALSE]

\* The state in which main has not started.
MainIdle ==
    /\ pc = "idle"
    /\ cur = 0
    /\ idx = 0
    /\ returns = [a \in AssetSet |-> << >>]
    /\ models_dict = << >>
    /\ forecasts_records = << >>
    /\ cond_vol_dict = {}
    /\ garch_ret = [a \in AssetSet |-> NoGarch]
    /\ lb_done = {}
    /\ rv = [a \in AssetSet |-> << >>]
    /\ hmm_iter = 0
    /\ hmm_ret = [a \in AssetSet |-> NoHmm]
    /\ eval_ret = [a \in AssetSet |-> << >>]
    /\ error = NoError

\* The state in which no stand-alone call of evaluate_forecasts is under way.
EvalIdle ==
    /\ ev_pc = "idle"
    /\ forecasts_df_list = << >>
    /\ realized_vol_series = << >>
    /\ summary = << >>
    /\ ev_error = "none"

(* ------------------------------------------------------------------ *)
(* evaluate_forecasts on bounded inputs                                *)
(* ------------------------------------------------------------------ *)

\* Most records in one call.
MaxRecords == 3

EvalModels == {"GARCH11", "EGARCH"}

\* Forecasts, in percent: zero, the smallest positive value, the largest value.
EvalForecasts == {0, 1, MaxFinite}

\* Realized-volatility series, as fractions; NaN is a missing entry.
EvalRealized ==
    {<<0>>, <<1>>, <<NaN>>, <<0, 1>>, <<1, 0>>, <<0, NaN>>, <<NaN, 1>>,
     <<NaN, NaN>>, <<1, 0, NaN>>, <<0, 1, NaN>>, <<NaN, 1, 0>>, <<1, NaN, NaN>>}

ForecastRecord(m, f) ==
    [asset |-> "SPY", model |-> m, one_day_ahead_vol_forecast_pct |-> f]

SeqsUpTo(S, n) == UNION {[1..k -> S] : k \in 1..n}

\* The records arrive as one table, or as two (the first record, the rest).
EvalInit ==
    /\ MainIdle
    /\ ev_pc = "call"
    /\ \E rows \in SeqsUpTo({ForecastRecord(m, f) : m \in EvalModels, f \in EvalForecasts}, MaxRecords) :
       \E cut \in {1, Len(rows)} :
          forecasts_df_list =
              IF cut = Len(rows) THEN <<rows>>
              ELSE <<SubSeq(rows, 1, cut), SubSeq(rows, cut + 1, Len(rows))>>
    /\ realized_vol_series \in EvalRealized
    /\ summary = << >>
    /\ ev_error = "none"

\* evaluate_forecasts(forecasts_df_list, realized_vol_series, ...)
EvaluateForecasts ==
    /\ ev_pc = "call"
    /\ IF Len(DropNa(realized_vol_series)) = 0
       THEN /\ ev_pc' = "raised"
            /\ ev_error' = "IndexError"
            /\ UNCHANGED summary
       ELSE /\ ev_pc' = "returned"
            /\ summary' = Summary(forecasts_df_list, realized_vol_series)
            /\ UNCHANGED ev_error
    /\ UNCHANGED <<forecasts_df_list, realized_vol_series>>
    /\ UNCHANGED main_vars

EvalNext == EvaluateForecasts

SpecEval == EvalInit /\ [][EvalNext]_vars

(* ------------------------------------------------------------------ *)
(* main                                                                *)
(* ------------------------------------------------------------------ *)

Asset == Assets[cur]

\* The series fit_garch_models has after returns.dropna() * 100.0 has this
\* many observations; the standardized residuals have as many.
nobs(a) == Len(ScaledReturns(returns[a]))

Raise(exc, stage, a, m) ==
    /\ pc' = "aborted"
    /\ error' = [exc |-> exc, stage |-> stage, asset |-> a, model |-> m]

\* The state after load_data: both return series are in hand.
Init ==
    /\ EvalIdle
    /\ pc = "garch_enter"
    /\ cur = 1
    /\ idx = 0
    /\ returns \in [AssetSet -> ReturnSeries]
    /\ models_dict = << >>
    /\ forecasts_records = << >>
    /\ cond_vol_dict = {}
    /\ garch_ret = [a \in AssetSet |-> NoGarch]
    /\ lb_done = {}
    /\ rv = [a \in AssetSet |-> << >>]
    /\ hmm_iter = 0
    /\ hmm_ret = [a \in AssetSet |-> NoHmm]
    /\ eval_ret = [a \in AssetSet |-> << >>]
    /\ error = NoError

\* fit_garch_models, entry: the directories, the scaled series, models_dict = {}.
GarchEnter ==
    /\ pc = "garch_enter"
    /\ pc' = "garch_fit"
    /\ idx' = 1
    /\ models_dict' = << >>
    /\ UNCHANGED <<cur, returns, forecasts_records, cond_vol_dict, garch_ret,
                   lb_done, rv, hmm_iter, hmm_ret, eval_ret, error>>
    /\ UNCHANGED ev_vars

\* The fit returned res: models_dict[name] = res, then the next statement.
StoreFit(name, res) ==
    /\ models_dict' = [m \in DOMAIN models_dict \cup {name} |->
                          IF m = name THEN res ELSE models_dict[m]]
    /\ IF idx < Len(ModelNames)
       THEN /\ idx' = idx + 1
            /\ UNCHANGED <<pc, forecasts_records, cond_vol_dict>>
       ELSE /\ idx' = 1
            /\ pc' = "garch_loop"
            /\ forecasts_records' = << >>
            /\ cond_vol_dict' = {}
    /\ UNCHANGED error

\* arch_model(...).fit(disp="off") of one variant.  The library hands back a
\* result object, or raises; nothing here catches what it raises.
GarchFit ==
    /\ pc = "garch_fit"
    /\ \/ \E res \in FitResults(ModelNames[idx]) : StoreFit(ModelNames[idx], res)
       \/ /\ Raise("NumericalError", "garch_fit", Asset, ModelNames[idx])
          /\ UNCHANGED <<idx, models_dict, forecasts_records, cond_vol_dict>>
    /\ UNCHANGED <<cur, returns, garch_ret, lb_done, rv, hmm_iter, hmm_ret, eval_ret>>
    /\ UNCHANGED ev_vars

\* The record the loop appends for one model.
ForecastOf(a, name, res) ==
    [asset |-> a, model |-> name,
     one_day_ahead_vol_forecast_pct |-> FSqrt(res.var_fcast)]

\* One pass of the loop over models_dict: volatility path, forecast record,
\* plots, and the Ljung-Box test at LjungBoxLags lags on the residuals.  With
\* no more residuals than lags the library either raises or reports a
\* statistic of the lags it has.
GarchDiagnose ==
    /\ pc = "garch_loop"
    /\ cond_vol_dict' = cond_vol_dict \cup {ModelNames[idx]}
    /\ forecasts_records' =
           Append(forecasts_records,
                  ForecastOf(Asset, ModelNames[idx], models_dict[ModelNames[idx]]))
    /\ \/ /\ lb_done' = lb_done \cup {<<Asset, ModelNames[idx]>>}
          /\ IF idx < Len(ModelNames)
             THEN idx' = idx + 1 /\ UNCHANGED pc
             ELSE idx' = 0 /\ pc' = "garch_return"
          /\ UNCHANGED error
       \/ /\ nobs(Asset) <= LjungBoxLags
          /\ Raise("ValueError", "ljung_box", Asset, ModelNames[idx])
          /\ UNCHANGED <<idx, lb_done>>
    /\ UNCHANGED <<cur, returns, models_dict, garch_ret, rv, hmm_iter, hmm_ret, eval_ret>>
    /\ UNCHANGED ev_vars

\* return models_dict, forecasts_df, cond_vol_dict; main goes on to the next
\* asset, or to the realized volatility.
GarchReturn ==
    /\ pc = "garch_return"
    /\ garch_ret' = [garch_ret EXCEPT ![Asset] =
           [returned |-> TRUE, models |-> models_dict,
            fc |-> forecasts_records, cond_vol |-> cond_vol_dict]]
    /\ IF cur < Len(Assets)
       THEN cur' = cur + 1 /\ pc' = "garch_enter"
       ELSE cur' = 0 /\ pc' = "rv"
    /\ UNCHANGED <<idx, returns, models_dict, forecasts_records, cond_vol_dict,
                   lb_done, rv, hmm_iter, hmm_ret, eval_ret, error>>
    /\ UNCHANGED ev_vars

\* spy_rv = realized_volatility(...); btc_rv = realized_volatility(...)
RealizedVol ==
    /\ pc = "rv"
    /\ rv' = [a \in AssetSet |-> realized_volatility(returns[a], window)]
    /\ pc' = "plot"
    /\ UNCHANGED <<cur, idx, returns, models_dict, forecasts_records, cond_vol_dict,
                   garch_ret, lb_done, hmm_iter, hmm_ret, eval_ret, error>>
    /\ UNCHANGED ev_vars

\* plot_conditional_vol_vs_realized for both assets: figures only.
PlotCondVol ==
    /\ pc = "plot"
    /\ pc' = "hmm_enter"
    /\ cur' = 1
    /\ UNCHANGED <<idx, returns, models_dict, forecasts_records, cond_vol_dict,
                   garch_ret, lb_done, rv, hmm_iter, hmm_ret, eval_ret, error>>
    /\ UNCHANGED ev_vars

\* fit_hmm_regimes, entry: the features, the scaler, GaussianHMM(n_iter=200).
HmmEnter ==
    /\ pc = "hmm_enter"
    /\ pc' = "hmm_fit"
    /\ hmm_iter' = 0
    /\ UNCHANGED <<cur, idx, returns, models_dict, forecasts_records, cond_vol_dict,
                   garch_ret, lb_done, rv, hmm_ret, eval_ret, error>>
    /\ UNCHANGED ev_vars

\* hmm.fit(X) leaves its loop: the monitor says whether the tolerance was met.
HmmFitted(converged) ==
    /\ pc' = "hmm_decode"
    /\ hmm_iter' = 0
    /\ hmm_ret' = [hmm_ret EXCEPT ![Asset].converged = converged]
    /\ UNCHANGED error

\* hmm.fit(X): one EM iteration of at most n_iter.  After it the tolerance is
\* met, or is not, or the iteration raised; the last iteration of the budget
\* ends the loop either way.
HmmFit ==
    /\ pc = "hmm_fit"
    /\ hmm_iter < n_iter
    /\ \/ HmmFitted(TRUE)
       \/ /\ hmm_iter + 1 < n_iter
          /\ hmm_iter' = hmm_iter + 1
          /\ UNCHANGED <<pc, hmm_ret, error>>
       \/ /\ hmm_iter + 1 = n_iter
          /\ HmmFitted(FALSE)
       \/ /\ Raise("NumericalError", "hmm_fit", Asset, "HMM")
          /\ hmm_iter' = 0
          /\ UNCHANGED hmm_ret
    /\ UNCHANGED <<cur, idx, returns, models_dict, forecasts_records, cond_vol_dict,
                   garch_ret, lb_done, rv, eval_ret>>
    /\ UNCHANGED ev_vars

\* predict, predict_proba, the three figures, and the returned dict; main goes
\* on to the next asset, or to the evaluation.
HmmDecode ==
    /\ pc = "hmm_decode"
    /\ hmm_ret' = [hmm_ret EXCEPT ![Asset].returned = TRUE]
    /\ IF cur < Len(Assets)
       THEN cur' = cur + 1 /\ pc' = "hmm_enter"
       ELSE cur' = 1 /\ pc' = "eval"
    /\ UNCHANGED <<idx, returns, models_dict, forecasts_records, cond_vol_dict,
                   garch_ret, lb_done, rv, hmm_iter, eval_ret, error>>
    /\ UNCHANGED ev_vars

\* spy_eval = evaluate_forecasts([spy_fc], spy_rv, ...), then btc_eval.
Evaluate ==
    /\ pc = "eval"
    /\ IF Len(DropNa(rv[Asset])) = 0
       THEN /\ Raise("IndexError", "evaluate_forecasts", Asset, "none")
            /\ UNCHANGED <<cur, eval_ret>>
       ELSE /\ eval_ret' = [eval_ret EXCEPT ![Asset] =
                                Summary(<<garch_ret[Asset].fc>>, rv[Asset])]
            /\ IF cur < Len(Assets)
               THEN cur' = cur + 1 /\ UNCHANGED pc
               ELSE cur' = 0 /\ pc' = "save"
            /\ UNCHANGED error
    /\ UNCHANGED <<idx, returns, models_dict, forecasts_records, cond_vol_dict,
                   garch_ret, lb_done, rv, hmm_iter, hmm_ret>>
    /\ UNCHANGED ev_vars

\* The combined summary is written; main ends.
SaveSummary ==
    /\ pc = "save"
    /\ pc' = "done"
    /\ UNCHANGED <<cur, idx, returns, models_dict, forecasts_records, cond_vol_dict,
                   garch_ret, lb_done, rv, hmm_iter, hmm_ret, eval_ret, error>>
    /\ UNCHANGED ev_vars

Next ==
    \/ GarchEnter
    \/ GarchFit
    \/ GarchDiagnose
    \/ GarchReturn
    \/ RealizedVol
    \/ PlotCondVol
    \/ HmmEnter
    \/ HmmFit
    \/ HmmDecode
    \/ Evaluate
    \/ SaveSummary

Spec == Init /\ [][Next]_vars


(* ------------------------------------------------------------------ *)
(* Properties of evaluate_forecasts (checked under SpecEval)           *)
(* ------------------------------------------------------------------ *)

\* The n-th record handed to the call, counting through the tables in order.
RecordAt(n) ==
    IF n <= Len(forecasts_df_list[1])
    THEN forecasts_df_list[1][n]
    ELSE forecasts_df_list[2][n - Len(forecasts_df_list[1])]

RecordCount ==
    IF Len(forecasts_df_list) = 1
    THEN Len(forecasts_df_list[1])
    ELSE Len(forecasts_df_list[1]) + Len(forecasts_df_list[2])

\* The positions of the records of model m.
RecordsOf(m) == {n \in 1..RecordCount : RecordAt(n).model = m}

RecordModels == {RecordAt(n).model : n \in 1..RecordCount}

\* The most recent entry of the series that is not missing, in percent.
Reference ==
    LET i == CHOOSE i \in 1..Len(realized_vol_series) :
                 /\ ~IsNaN(realized_vol_series[i])
                 /\ \A j \in (i + 1)..Len(realized_vol_series) :
                        IsNaN(realized_vol_series[j])
    IN  FMul(realized_vol_series[i], Hundred)

ForecastAt(n) == RecordAt(n).one_day_ahead_vol_forecast_pct

\* Sum over the first n records of those of model m, of |forecast - Reference|
\* (squared = FALSE) or of its square (squared = TRUE).
RECURSIVE ErrorSum(_, _, _)
ErrorSum(n, m, squared) ==
    IF n = 0 THEN 0
    ELSE IF RecordAt(n).model # m THEN ErrorSum(n - 1, m, squared)
    ELSE LET d == FSub(ForecastAt(n), Reference)
         IN  FAdd(ErrorSum(n - 1, m, squared),
                  IF squared THEN FMul(d, d) ELSE FAbs(d))

MeanError(m, squared) ==
    FDivCount(ErrorSum(RecordCount, m, squared), Cardinality(RecordsOf(m)))

RowsOf(m) == {k \in 1..Len(summary) : summary[k].model = m}

\* C4: once evaluate_forecasts has returned, every model of the records has a
\* row, every row's MAE and RMSE are numbers >= 0, and a model whose forecasts
\* all equal the reference has MAE = RMSE = 0.
C4_NonNegativeAndZero ==
    ev_pc = "returned" =>
        /\ \A m \in RecordModels : RowsOf(m) # {}
        /\ \A k \in 1..Len(summary) :
              /\ ~IsNaN(summary[k].abs_err) /\ summary[k].abs_err >= 0
              /\ ~IsNaN(summary[k].rmse) /\ summary[k].rmse >= 0
              /\ (\A n \in RecordsOf(summary[k].model) : ForecastAt(n) = Reference)
                    => summary[k].abs_err = 0 /\ summary[k].rmse = 0

\* A call has returned in which one model's two or more forecasts all equal the
\* reference and its row is zero, while another model's row has errors.
C4_Witness ==
    /\ ev_pc = "returned"
    /\ \E k, l \in 1..Len(summary) :
          /\ Cardinality(RecordsOf(summary[k].model)) >= 2
          /\ \A n \in RecordsOf(summary[k].model) : ForecastAt(n) = Reference
          /\ summary[k].abs_err = 0 /\ summary[k].rmse = 0
          /\ summary[l].abs_err > 0 /\ summary[l].rmse > 0

\* C5: a model whose forecasts all lie one smallest-subnormal from the
\* reference gets an RMSE strictly below its MAE: each squared error rounds to
\* zero while the absolute errors do not.  (In exact arithmetic RMSE >= MAE.)
C5_RmseBelowMae ==
    ev_pc = "returned" =>
        \A k \in 1..Len(summary) :
            (\A n \in RecordsOf(summary[k].model) :
                 ForecastAt(n) - Reference \in {-1, 1})
                => summary[k].rmse < summary[k].abs_err

\* A call has returned with a row whose RMSE is strictly below its MAE.
C5_Witness ==
    /\ ev_pc = "returned"
    /\ \E k \in 1..Len(summary) :
          /\ \A n \in RecordsOf(summary[k].model) :
                 ForecastAt(n) - Reference \in {-1, 1}
          /\ ~IsNaN(summary[k].rmse) /\ ~IsNaN(summary[k].abs_err)
          /\ summary[k].rmse < summary[k].abs_err

MainEnded == pc \in {"done", "aborted"}

\* fit_garch_models is past its entry for asset a, or has returned for it.
PastGarchEntry(a) ==
    \/ garch_ret[a].returned
    \/ pc \in {"garch_fit", "garch_loop", "garch_return"} /\ Asset = a

\* The parameters under which a caller could pass an iteration cap, and a
\* convergence tolerance.
CapParameters == {"n_iter", "max_iter", "maxiter", "max_iterations"}

TolParameters == {"tol", "tolerance"}

\* C1: when main has ended and the fit of one GARCH variant had failed, both
\* HMM fits have completed and the caller holds the results of the other two
\* variants of that asset.
C1_FailureIsContained ==
    (MainEnded /\ error.stage = "garch_fit") =>
        /\ \A a \in AssetSet : hmm_ret[a].returned
        /\ \A i \in 1..Len(ModelNames) :
              ModelNames[i] # error.model
                  => ModelNames[i] \in DOMAIN garch_ret[error.asset].models

\* C2: a fit that used up its iteration budget is never among the returned
\* models, has no forecast record and no Ljung-Box statistic; an HMM whose EM
\* loop used up its budget is never returned.
C2_ExhaustedFitIsFailed ==
    /\ \A a \in AssetSet : \A m \in DOMAIN garch_ret[a].models :
          garch_ret[a].models[m].convergence_flag = 0
    /\ pc \in {"garch_loop", "garch_return"} =>
          \A i \in 1..Len(forecasts_records) :
              models_dict[forecasts_records[i].model].convergence_flag = 0
    /\ \A a \in AssetSet : \A m \in DOMAIN garch_ret[a].models :
          <<a, m>> \in lb_done => garch_ret[a].models[m].convergence_flag = 0
    /\ \A a \in AssetSet : hmm_ret[a].returned => hmm_ret[a].converged

\* C3: with fewer residuals than Ljung-Box lags, fit_garch_models does not get
\* past its entry, and no Ljung-Box statistic is computed.
C3_ShortSeriesRejected ==
    \A a \in AssetSet :
        nobs(a) < LjungBoxLags =>
            /\ ~PastGarchEntry(a)
            /\ \A i \in 1..Len(ModelNames) : <<a, ModelNames[i]>> \notin lb_done

\* C8: a GARCH(1,1) result among the returned models has alpha + beta < 1.
C8_ReturnedGarchIsStationary ==
    \A a \in AssetSet :
        (garch_ret[a].returned /\ "GARCH11" \in DOMAIN garch_ret[a].models) =>
            FAdd(garch_ret[a].models["GARCH11"].alpha,
                 garch_ret[a].models["GARCH11"].beta) < One

\* C9: the EM loop never runs more than n_iter iterations, and each fit takes
\* its iteration cap and its tolerance from its caller.
C9_BoundedAndConfigurable ==
    /\ hmm_iter <= n_iter
    /\ pc = "hmm_fit" =>
          /\ HmmSignature \cap CapParameters # {}
          /\ HmmSignature \cap TolParameters # {}
    /\ pc = "garch_fit" =>
          /\ GarchSignature \cap CapParameters # {}
          /\ GarchSignature \cap TolParameters # {}

====
